---- MODULE Spec2Model ----
(***************************************************************************)
(* Versioning-and-release pipeline of the skills repository: the           *)
(* prerelease command (enter / exit / status), the release analysis        *)
(* (dry run) and the release run (version, lockfile, commit, tag, push,    *)
(* hosted release), over a git work tree, a remote and a hosting service.  *)
(*                                                                         *)
(* External tools (pnpm changeset, git, gh) are the environment: each      *)
(* call either fails or has the tool's effect, chosen nondeterministically.*)
(***************************************************************************)
EXTENDS Integers, Sequences, FiniteSets, TLC

\* ------------------------------------------------------------------ bounds
\* Release processes started in a behaviour.
MaxRuns == 1
\* The same, in the specification that follows one prerelease window.
MaxWindowRuns == 2

\* ------------------------------------------------------------- vocabulary
Null == "null"

\* Packages found under the managed roots (apps, packages, tooling).
Managed == {"A", "B"}
\* A package named in changesets that lies under no managed root and that
\* the versioning tool ignores.
Unmanaged == {"X"}

validTags == {"alpha", "beta", "rc", "next", "canary"}
\* Tags a user may type at the prompt: two valid ones and one outside the set.
TagInputs == {"alpha", "beta", "gamma"}

Bumps == {"major", "minor", "patch"}

\* A version string M.m.p or M.m.p-tag.n, kept as its parts; tag = Null
\* when the string has no prerelease suffix.
Ver(M, m, p) == [maj |-> M, min |-> m, pat |-> p, tag |-> Null, n |-> 0]
PreVer(M, m, p, t, k) == [maj |-> M, min |-> m, pat |-> p, tag |-> t, n |-> k]

\* Number() of a component that is no number or is not there ('1.x.2',
\* '1.4'): NaN, which stays NaN when raised and prints as NaN.
NaN == -1
Inc(x) == IF x = NaN THEN NaN ELSE x + 1

\* A package.json without a version field, or with an empty one.
NoVersionField == [maj |-> NaN, min |-> NaN, pat |-> NaN, tag |-> "undefined", n |-> 0]

\* version.replace(/-.*$/, '')
StripSuffix(v) == [v EXCEPT !.tag = Null, !.n = 0]

\* ------------------------------------------------------ changeset files
\* A line of a file by what the patterns look for: "fence" starts with ---,
\* "blank" holds white space only, "bump" is 'package': level, "text" is
\* anything else.
Line(kind, pkg, bump) == [kind |-> kind, pkg |-> pkg, bump |-> bump]
Fence == Line("fence", Null, Null)
Blank == Line("blank", Null, Null)
Text == Line("text", Null, Null)
BumpLine(pkg, bump) == Line("bump", pkg, bump)

\* A changeset with the header lines hdr between two fences.
Changeset(hdr) == << Fence >> \o hdr \o << Fence, Blank, Text >>

\* Names ending in .md that may lie in .changeset, with their content:
\* changesets, the file the changeset skill writes for internal changes
\* (---\n---\n\nInternal changes only), a header holding one blank line, a
\* file without header, and the directory's readme under three spellings.
CsContent ==
  [f \in {"a-minor.md", "a-patch.md", "b-patch.md", "internal.md", "x-patch.md",
          "ab-major.md", "blank-header.md", "no-header.md",
          "README.md", "readme.md", "Readme.md", ".hidden.md"} |->
     CASE f = "a-minor.md" -> Changeset(<< BumpLine("A", "minor") >>)
       [] f = "a-patch.md" -> Changeset(<< BumpLine("A", "patch") >>)
       [] f = "b-patch.md" -> Changeset(<< BumpLine("B", "patch") >>)
       [] f = "x-patch.md" -> Changeset(<< BumpLine("X", "patch") >>)
       [] f = "ab-major.md" ->
            Changeset(<< BumpLine("B", "patch"), BumpLine("A", "major"),
                         BumpLine("B", "minor") >>)
       [] f = "internal.md" -> << Fence, Fence, Blank, Text, Blank >>
       [] f = "blank-header.md" -> << Fence, Blank, Fence, Blank, Text >>
       [] f = ".hidden.md" -> Changeset(<< BumpLine("A", "major") >>)
       [] OTHER -> << Text, Blank, Text >> ]

MdFiles == DOMAIN CsContent

\* content.match(/^---\n([\s\S]*?)\n---/): the first line is ---, the block
\* ends before the first later line that starts with --- and follows a line
\* of the block; body is the block's lines.
frontmatterMatch(content) ==
  LET ends == {j \in 3..Len(content) : content[j].kind = "fence"}
  IN IF Len(content) >= 1 /\ content[1].kind = "fence" /\ ends # {}
     THEN [matched |-> TRUE,
           body |-> SubSeq(content, 2, (CHOOSE j \in ends : \A k \in ends : j <= k) - 1)]
     ELSE [matched |-> FALSE, body |-> << >>]

\* line.match(/^['"]?([^'"]+)['"]?\s*:\s*(major|minor|patch)/) over the
\* lines of a block: the [pkg, bump] of the lines that match.
RECURSIVE bumpLines(_)
bumpLines(lines) ==
  IF lines = << >> THEN << >>
  ELSE IF Head(lines).kind = "bump" /\ Head(lines).bump \in {"major", "minor", "patch"}
       THEN << [pkg |-> Head(lines).pkg, bump |-> Head(lines).bump] >>
            \o bumpLines(Tail(lines))
       ELSE bumpLines(Tail(lines))

\* Header block of each file: the sequence of its 'package': bump lines.
CsHeader ==
  [f \in MdFiles |->
     LET m == frontmatterMatch(CsContent[f])
     IN IF m.matched THEN bumpLines(m.body) ELSE << >>]

\* The changeset files among them.
CsFiles == {"a-minor.md", "a-patch.md", "b-patch.md", "internal.md", "x-patch.md",
            "ab-major.md", "blank-header.md", "no-header.md"}

\* Entries of .changeset that are always there and are no changesets.
StaticFiles == {"README.md", "config.json", ".gitkeep"}

EndsWithMd(f) == f \in MdFiles
StartsWithDot(f) == f \in {".gitkeep", ".hidden.md"}

\* readdirSync order: by name.
FileOrder == << ".gitkeep", ".hidden.md", "README.md", "Readme.md", "a-minor.md",
                "a-patch.md", "ab-major.md", "b-patch.md", "blank-header.md",
                "config.json", "internal.md", "no-header.md", "readme.md",
                "x-patch.md" >>

\* The elements of sequence s that lie in set S, in s's order.
RECURSIVE FilterSeq(_, _)
FilterSeq(s, S) ==
  IF s = << >> THEN << >>
  ELSE IF Head(s) \in S THEN << Head(s) >> \o FilterSeq(Tail(s), S)
       ELSE FilterSeq(Tail(s), S)

Range(s) == {s[i] : i \in 1..Len(s)}

\* ------------------------------------------------------ prerelease state
\* .changeset/pre.json: file is "missing", "corrupt" (present, not
\* parseable JSON) or "ok" with the content fields; the content fields of a
\* missing or corrupt file are empty.
EmptyMap == [p \in {} |-> Null]

PreFile(m, t, iv, cs) ==
  [file |-> "ok", mode |-> m, tag |-> t, initialVersions |-> iv, changesets |-> cs]

PreMissing ==
  [file |-> "missing", mode |-> Null, tag |-> Null, initialVersions |-> EmptyMap,
   changesets |-> {}]

PreCorrupt ==
  [file |-> "corrupt", mode |-> Null, tag |-> Null, initialVersions |-> EmptyMap,
   changesets |-> {}]

Inactive ==
  [active |-> FALSE, mode |-> Null, tag |-> Null, initialVersions |-> EmptyMap,
   changesets |-> {}]

getStatus(p) ==
  IF p.file = "missing" THEN Inactive
  ELSE IF p.file = "corrupt" THEN Inactive
  ELSE [active |-> (p.mode = "pre"), mode |-> p.mode, tag |-> p.tag,
        initialVersions |-> p.initialVersions, changesets |-> p.changesets]

\* Mutant of getPrereleaseInfo: a file that does not parse is not caught
\* and the fields come out as the parser's error.
getPrereleaseInfoNoCatch(p) ==
  IF p.file = "missing" THEN [mode |-> Null, tag |-> Null]
  ELSE IF p.file = "corrupt" THEN [mode |-> "SyntaxError", tag |-> "SyntaxError"]
  ELSE [mode |-> p.mode, tag |-> p.tag]

getPrereleaseInfo(p) ==
  IF p.file = "missing" THEN [mode |-> Null, tag |-> Null]
  ELSE IF p.file = "corrupt" THEN [mode |-> Null, tag |-> Null]
  ELSE [mode |-> p.mode, tag |-> p.tag]

\* ------------------------------------------------------ version resolution
bumpPriority(b) == CASE b = "major" -> 3 [] b = "minor" -> 2 [] b = "patch" -> 1

\* The switch of bumpVersion without its resets of the lower components.
bumpBaseNoReset(v, bump) ==
  CASE bump = "major" -> Ver(Inc(v.maj), v.min, v.pat)
    [] bump = "minor" -> Ver(v.maj, Inc(v.min), v.pat)
    [] bump = "patch" -> Ver(v.maj, v.min, Inc(v.pat))

bumpBase(v, bump) ==
  CASE bump = "major" -> Ver(Inc(v.maj), 0, 0)
    [] bump = "minor" -> Ver(v.maj, Inc(v.min), 0)
    [] bump = "patch" -> Ver(v.maj, v.min, Inc(v.pat))

\* Mutant of bumpVersion: the lower components are not reset.
bumpVersionNoReset(version, bump, prereleaseTag) ==
  LET newBase == bumpBaseNoReset(StripSuffix(version), bump)
  IN IF prereleaseTag # Null
     THEN [newBase EXCEPT !.tag = prereleaseTag, !.n = 0]
     ELSE newBase

bumpVersion(version, bump, prereleaseTag) ==
  LET newBase == bumpBase(StripSuffix(version), bump)
  IN IF prereleaseTag # Null
     THEN [newBase EXCEPT !.tag = prereleaseTag, !.n = 0]
     ELSE newBase

detectBumpType(oldVersion, newVersion) ==
  LET o == StripSuffix(oldVersion)
      w == StripSuffix(newVersion)
  IN IF w.maj > o.maj THEN "major"
     ELSE IF w.min > o.min THEN "minor"
     ELSE "patch"

\* readdirSync(changesetDir) listing the entries in the given order.
readdirSync(order, dir) == FilterSeq(order, dir)

\* The filter of getPendingChangesets (and of validate) over a listing.
filterChangesets(entries) ==
  FilterSeq(entries,
            {f \in Range(entries) : EndsWithMd(f) /\ f # "README.md" /\ ~StartsWithDot(f)})

getPendingChangesets(dir) == filterChangesets(readdirSync(FileOrder, dir))

\* findPackageInfo: the package's directory and version when a package of
\* that name lies under apps, packages or tooling; Null otherwise.
findPackageInfo(wt, name) ==
  IF name \in Managed
  THEN [found |-> TRUE,
        version |-> IF wt[name] = NoVersionField THEN Ver(0, 0, 0) ELSE wt[name]]
  ELSE [found |-> FALSE, version |-> Ver(0, 0, 0)]

\* Mutant of collectBumps: a package seen again takes the later bump.
RECURSIVE collectBumpsLast(_, _)
collectBumpsLast(lines, acc) ==
  IF lines = << >> THEN acc
  ELSE LET l == Head(lines)
           at == {i \in 1..Len(acc) : acc[i].pkg = l.pkg}
       IN IF at = {}
          THEN collectBumpsLast(Tail(lines), Append(acc, l))
          ELSE LET i == CHOOSE j \in at : TRUE
               IN collectBumpsLast(Tail(lines), [acc EXCEPT ![i] = l])

\* The Map packageBumps of simulateVersion as a sequence of
\* [pkg, bump] in insertion order: a package seen again keeps its place and
\* takes the higher bump.
RECURSIVE collectBumps(_, _)
collectBumps(lines, acc) ==
  IF lines = << >> THEN acc
  ELSE LET l == Head(lines)
           at == {i \in 1..Len(acc) : acc[i].pkg = l.pkg}
       IN IF at = {}
          THEN collectBumps(Tail(lines), Append(acc, l))
          ELSE LET i == CHOOSE j \in at : TRUE
               IN IF bumpPriority(l.bump) > bumpPriority(acc[i].bump)
                  THEN collectBumps(Tail(lines), [acc EXCEPT ![i] = l])
                  ELSE collectBumps(Tail(lines), acc)

\* The header lines of the files of a sequence, file after file.
RECURSIVE headerLines(_)
headerLines(files) ==
  IF files = << >> THEN << >>
  ELSE CsHeader[Head(files)] \o headerLines(Tail(files))

RECURSIVE resolveAll(_, _, _)
resolveAll(bumps, wt, tag) ==
  IF bumps = << >> THEN << >>
  ELSE LET b == Head(bumps)
           info == findPackageInfo(wt, b.pkg)
       IN IF info.found
          THEN << [name |-> b.pkg, oldVersion |-> info.version,
                   newVersion |-> bumpVersion(info.version, b.bump, tag),
                   bump |-> b.bump, prerelease |-> (tag # Null)] >>
               \o resolveAll(Tail(bumps), wt, tag)
          ELSE resolveAll(Tail(bumps), wt, tag)

\* simulateVersion from the listing getPendingChangesets returned.
simulateVersionOf(changesets, wt, p) ==
  resolveAll(collectBumps(headerLines(changesets), << >>), wt, getPrereleaseInfo(p).tag)

simulateVersion(dir, wt, p) == simulateVersionOf(getPendingChangesets(dir), wt, p)

\* frontmatterMatch[1].trim().length > 0
trimmedLength(body) == Cardinality({i \in 1..Len(body) : body[i].kind # "blank"})

validateResult(valid, files, isEmpty, message) ==
  [valid |-> valid, changesetFiles |-> files, isEmpty |-> isEmpty, message |-> message]

\* Mutant of validate: a file whose header does not match counts as not empty.
validateStrict(exists, order, dir) ==
  IF ~exists THEN validateResult(FALSE, << >>, FALSE, "No .changeset directory found")
  ELSE LET files == filterChangesets(readdirSync(order, dir))
       IN IF Len(files) = 0
          THEN validateResult(FALSE, << >>, FALSE, "No changeset files found")
          ELSE LET allEmpty ==
                     \A i \in 1..Len(files) :
                        LET m == frontmatterMatch(CsContent[files[i]])
                        IN m.matched /\ trimmedLength(m.body) = 0
               IN validateResult(TRUE, files, allEmpty,
                                 IF allEmpty THEN "empty - internal changes only"
                                 ELSE "found")

\* validate of validate.ts; exists: the directory .changeset is there.
validate(exists, order, dir) ==
  IF ~exists THEN validateResult(FALSE, << >>, FALSE, "No .changeset directory found")
  ELSE LET files == filterChangesets(readdirSync(order, dir))
       IN IF Len(files) = 0
          THEN validateResult(FALSE, << >>, FALSE, "No changeset files found")
          ELSE LET allEmpty ==
                     \A i \in 1..Len(files) :
                        LET m == frontmatterMatch(CsContent[files[i]])
                        IN ~(m.matched /\ trimmedLength(m.body) > 0)
               IN validateResult(TRUE, files, allEmpty,
                                 IF allEmpty THEN "empty - internal changes only"
                                 ELSE "found")

\* git diff --name-only HEAD~1 lists the package.json files in path order.
PackageOrder == << "A", "B" >>

RECURSIVE diffPackages(_, _, _)
diffPackages(names, wt, old) ==
  IF names = << >> THEN << >>
  ELSE LET nm == Head(names)
       IN IF wt[nm] # old[nm]
          THEN << [name |-> nm, oldVersion |-> old[nm], newVersion |-> wt[nm],
                   bump |-> detectBumpType(old[nm], wt[nm]),
                   prerelease |-> (wt[nm].tag # Null)] >>
               \o diffPackages(Tail(names), wt, old)
          ELSE diffPackages(Tail(names), wt, old)

\* wt: the work tree's package.json versions; old: those of commit HEAD~1.
getVersionedPackagesFromDiff(wt, old) == diffPackages(PackageOrder, wt, old)

\* `${pkg.name}@${pkg.newVersion}`
TagOf(pkg) == [name |-> pkg.name, version |-> pkg.newVersion]

buildReleaseInfo(pkg) ==
  [tag |-> TagOf(pkg), title |-> TagOf(pkg), prerelease |-> pkg.prerelease]

\* ------------------------------------------- the versioning tool's effect
\* pnpm changeset version, as the pipeline relies on it: it consumes the
\* pending changesets that name no ignored package, writes each named
\* package's next version and deletes the consumed files.  Inside a
\* prerelease window the version is {base}-{tag}.{n}: base is the bump of the
\* version recorded at enter, n counts the package's earlier resolutions in
\* the window.
ToolConsumes(dir) ==
  {f \in dir \cap CsFiles : \A i \in 1..Len(CsHeader[f]) : CsHeader[f][i].pkg \in Managed}

BumpsFor(files, nm) ==
  UNION {{CsHeader[f][i].bump : i \in {j \in 1..Len(CsHeader[f]) : CsHeader[f][j].pkg = nm}} :
         f \in files}

MaxBump(bs) == CHOOSE b \in bs : \A c \in bs : bumpPriority(b) >= bumpPriority(c)

ToolVersion(nm, wt, p, consumed) ==
  LET now == BumpsFor(consumed, nm)
  IN IF now = {} THEN wt[nm]
     ELSE IF p.file = "ok" /\ p.mode \in {"pre", "exit"}
     THEN LET all == now \cup BumpsFor(p.changesets, nm)
              base == bumpBase(StripSuffix(p.initialVersions[nm]), MaxBump(all))
          IN IF p.mode = "exit" THEN base
             ELSE [base EXCEPT !.tag = p.tag,
                               !.n = IF wt[nm].tag = p.tag THEN wt[nm].n + 1 ELSE 0]
     ELSE bumpBase(StripSuffix(wt[nm]), MaxBump(now))

ToolPre(p, consumed) ==
  IF p.file = "ok" /\ p.mode = "pre"
  THEN [p EXCEPT !.changesets = @ \cup consumed]
  ELSE IF p.file = "ok" /\ p.mode = "exit" /\ consumed # {}
  THEN PreMissing
  ELSE p

\* ------------------------------------------------------------------ state
VARIABLES
  wtVer,      \* work tree: version in each managed package's package.json
  csDir,      \* work tree: changeset files in .changeset (besides StaticFiles)
  pre,        \* work tree: .changeset/pre.json
  lockVer,    \* work tree: the versions the lockfile was generated for
  head,       \* commit HEAD: [ver, cs, pre, lock]
  head1Ver,   \* commit HEAD~1: package versions
  tags,       \* local git tags
  remote,     \* shared remote: [ver, tags]
  releases,   \* hosting service: tags that have a release
  pc,         \* position of the running release process, "idle" when none
  flags,      \* the release process's inputs: [mode, answer, skipGithub, noPush];
              \* answer is the user's at the prompt; an input the process
              \* has not read yet is "unread"
  analysis,   \* analyze()'s result in the release process
  packages,   \* executeRelease's packages
  idx,        \* loop position in createTags / the release loop
  releaseUrls,\* executeRelease's releaseUrls
  errLog,     \* what the release process wrote to the console as warnings and errors
  steps,      \* external calls the release process made, in order
  exitCode,   \* exit status of the last release process (-1 while running or none)
  outcome,    \* how the last release process ended
  snap,       \* the world when the release process started
  preRes,     \* the last prerelease command and its result
  resolved,   \* per package, the versions analysis resolved in real runs of the window
  nRuns,      \* release processes started so far
  lib         \* a library function called on its own: [fn, its arguments, called, out]

world == << wtVer, csDir, pre, lockVer, head, head1Ver, tags, remote, releases >>
proc == << pc, flags, analysis, packages, idx, releaseUrls, errLog, steps, exitCode,
           outcome, snap >>
vars == << wtVer, csDir, pre, lockVer, head, head1Ver, tags, remote, releases,
           pc, flags, analysis, packages, idx, releaseUrls, errLog, steps, exitCode,
           outcome, snap, preRes, resolved, nRuns, lib >>

\* No library call under way.
NoLib == [fn |-> "none"]

TreeOf(v, c, p, l) == [ver |-> v, cs |-> c, pre |-> p, lock |-> l]

NoFlags == [mode |-> "none", answer |-> "unread", skipGithub |-> "unread",
            noPush |-> "unread"]
NoAnalysis == [prereleaseMode |-> Null, pendingChangesets |-> << >>,
               packagesToRelease |-> << >>]
NoPreRes == [op |-> "none", tag |-> Null, before |-> PreMissing, after |-> PreMissing,
             attempted |-> FALSE, exit |-> 0, report |-> "none", out |-> Inactive]

InitVer == [p \in Managed |-> IF p = "A" THEN Ver(1, 4, 2) ELSE Ver(0, 3, 0)]
\* HEAD~1 either holds the same versions, or the last commit raised B's.
InitOld == {InitVer, [InitVer EXCEPT !["B"] = Ver(0, 2, 9)]}

\* The pending changesets a behaviour starts with.
InitDirs ==
  { {}, {"a-minor.md", "b-patch.md"}, {"a-patch.md"}, {"internal.md"},
    {"a-patch.md", "x-patch.md"}, {"x-patch.md"} }

Init ==
  /\ wtVer = InitVer
  /\ csDir \in InitDirs
  /\ pre \in {PreMissing, PreCorrupt}
  /\ lockVer = InitVer
  /\ head = TreeOf(wtVer, csDir, pre, lockVer)
  /\ head1Ver \in InitOld
  /\ tags \in {{}, {[name |-> "A", version |-> Ver(1, 5, 0)]}}
  /\ remote = [ver |-> InitVer, tags |-> {}]
  /\ releases = {}
  /\ pc = "idle"
  /\ flags = NoFlags
  /\ analysis = NoAnalysis
  /\ packages = << >>
  /\ idx = 0
  /\ releaseUrls = << >>
  /\ errLog = << >>
  /\ steps = << >>
  /\ exitCode = -1
  /\ outcome = "none"
  /\ snap = world
  /\ preRes = NoPreRes
  /\ resolved = [p \in Managed |-> << >>]
  /\ nRuns = 0
  /\ lib = NoLib

\* ------------------------------------------------------ prerelease command
\* Each handler's result for pre.json content p: the new content, whether
\* pnpm changeset pre was run, the exit status, and whether the handler
\* reported with console.log ("info") or console.error ("error").  toolOk:
\* the tool call succeeds (it cannot on a file it cannot parse).
PreResult(p, attempted, exit, report) ==
  [pre |-> p, attempted |-> attempted, exit |-> exit, report |-> report]

\* Mutant of enterPrerelease: the check of the current status is missing.
enterPrereleaseUnchecked(tag, p, wt, toolOk) ==
  IF tag = Null THEN PreResult(p, FALSE, 1, "error")
  ELSE IF tag \notin validTags THEN PreResult(p, FALSE, 1, "error")
  ELSE IF toolOk /\ p.file # "corrupt"
       THEN PreResult(PreFile("pre", tag, wt, p.changesets), TRUE, 0, "info")
       ELSE PreResult(p, TRUE, 1, "error")

\* main's case "enter" (tag = Null: no tag given) and enterPrerelease.
\* pnpm changeset pre enter snapshots the packages' versions.
enterPrerelease(tag, p, wt, toolOk) ==
  IF tag = Null THEN PreResult(p, FALSE, 1, "error")
  ELSE IF tag \notin validTags THEN PreResult(p, FALSE, 1, "error")
  ELSE IF getStatus(p).active THEN PreResult(p, FALSE, 1, "error")
  ELSE IF toolOk /\ p.file # "corrupt"
       THEN PreResult(PreFile("pre", tag, wt, p.changesets), TRUE, 0, "info")
       ELSE PreResult(p, TRUE, 1, "error")

\* Mutant of exitPrerelease: the check of the current status is missing.
exitPrereleaseUnchecked(p, toolOk) ==
  IF toolOk /\ p.file = "ok" THEN PreResult([p EXCEPT !.mode = "exit"], TRUE, 0, "info")
  ELSE PreResult(p, TRUE, 1, "error")

\* pnpm changeset pre exit marks the file: mode "exit", the rest kept.
exitPrerelease(p, toolOk) ==
  IF ~getStatus(p).active THEN PreResult(p, FALSE, 0, "info")
  ELSE IF toolOk THEN PreResult([p EXCEPT !.mode = "exit"], TRUE, 0, "info")
       ELSE PreResult(p, TRUE, 1, "error")

showStatus(p) == PreResult(p, FALSE, 0, "info")

\* Another command starts: the last release process's record is dropped.
ForgetRelease ==
  /\ pc' = "idle"
  /\ flags' = NoFlags
  /\ analysis' = NoAnalysis
  /\ packages' = << >>
  /\ idx' = 0
  /\ releaseUrls' = << >>
  /\ errLog' = << >>
  /\ steps' = << >>
  /\ exitCode' = -1
  /\ outcome' = "none"
  /\ snap' = world'

PreCommand(op, tag, r) ==
  /\ pc = "idle"
  /\ pre' = r.pre
  /\ preRes' = [op |-> op, tag |-> tag, before |-> pre, after |-> r.pre,
                attempted |-> r.attempted, exit |-> r.exit, report |-> r.report,
                out |-> getStatus(pre)]
  /\ resolved' = IF op = "enter" /\ r.pre # pre THEN [p \in Managed |-> << >>] ELSE resolved
  /\ UNCHANGED << wtVer, csDir, lockVer, head, head1Ver, tags, remote, releases >>
  /\ ForgetRelease
  /\ UNCHANGED << nRuns, lib >>

Enter ==
  \E tag \in TagInputs \cup {Null}, toolOk \in BOOLEAN :
    PreCommand("enter", tag, enterPrerelease(tag, pre, wtVer, toolOk))

Exit ==
  \E toolOk \in BOOLEAN : PreCommand("exit", Null, exitPrerelease(pre, toolOk))

Status == PreCommand("status", Null, showStatus(pre))

\* A developer adds a changeset file, once the earlier ones are consumed,
\* and commits the work tree.
AddChangesetFrom(files) ==
  /\ pc = "idle"
  /\ csDir = {}
  /\ \E f \in files :
       /\ csDir' = csDir \cup {f}
       /\ head' = TreeOf(wtVer, csDir', pre, lockVer)
  /\ head1Ver' = head.ver
  /\ UNCHANGED << wtVer, pre, lockVer, tags, remote, releases >>
  /\ ForgetRelease
  /\ preRes' = NoPreRes
  /\ UNCHANGED << resolved, nRuns, lib >>

AddChangeset == AddChangesetFrom(CsFiles)

\* -------------------------------------------------------- release command
Step(st, pkg, res) == [step |-> st, pkg |-> pkg, res |-> res]
Log(kind, pkg, why) == [kind |-> kind, pkg |-> pkg, why |-> why]

RECURSIVE toRelease(_)
toRelease(pkgs) ==
  IF pkgs = << >> THEN << >>
  ELSE LET pkg == Head(pkgs)
           info == buildReleaseInfo(pkg)
       IN << [name |-> pkg.name, currentVersion |-> pkg.oldVersion,
              newVersion |-> pkg.newVersion, bump |-> pkg.bump, tag |-> info.tag,
              prerelease |-> info.prerelease] >> \o toRelease(Tail(pkgs))

\* runChangesetVersion(cwd, true)
runChangesetVersionDry(dir, wt, p) == simulateVersion(dir, wt, p)

analyze(dir, wt, p) ==
  [prereleaseMode |-> getPrereleaseInfo(p).tag,
   pendingChangesets |-> getPendingChangesets(dir),
   packagesToRelease |-> toRelease(runChangesetVersionDry(dir, wt, p))]

Dir == csDir \cup StaticFiles
Dirty == TreeOf(wtVer, csDir, pre, lockVer) # head

\* The process ends: main returns (status 0) or main().catch exits with 1.
Finish(code, how) ==
  /\ pc' = "idle"
  /\ exitCode' = code
  /\ outcome' = how

\* main, up to the confirmation prompt or the call of executeRelease.
StartReleaseUpTo(maxRuns) ==
  /\ pc = "idle"
  /\ nRuns < maxRuns
  /\ nRuns' = nRuns + 1
  /\ \E m \in {"dry", "interactive", "ci"} :
      LET f == [NoFlags EXCEPT !.mode = m] IN
       /\ flags' = f
       /\ IF getPendingChangesets(Dir) = << >>
          THEN /\ analysis' = NoAnalysis
               /\ Finish(0, "nothing")
          ELSE /\ analysis' = analyze(Dir, wtVer, pre)
               /\ IF f.mode = "dry" THEN Finish(0, "dryrun")
                  ELSE /\ pc' = IF f.mode = "interactive" THEN "confirm" ELSE "version"
                       /\ exitCode' = -1
                       /\ outcome' = "running"
  /\ packages' = << >>
  /\ idx' = 0
  /\ releaseUrls' = << >>
  /\ errLog' = << >>
  /\ steps' = << >>
  /\ snap' = world
  /\ UNCHANGED world
  /\ preRes' = NoPreRes
  /\ UNCHANGED << resolved, lib >>

StartRelease == StartReleaseUpTo(MaxRuns)

\* Mutant of confirmed: the answer is not looked at.
confirmedAlways(answer) == TRUE

\* Whether main goes on after prompts.confirm: "no" returns false and main
\* returns; "cancel" exits the process with status 0 inside confirm.
confirmed(answer) == answer = "yes"

\* prompts.confirm("Proceed with release?")
Confirm ==
  /\ pc = "confirm"
  /\ \E answer \in {"yes", "no", "cancel"} :
       /\ flags' = [flags EXCEPT !.answer = answer]
       /\ IF confirmed(answer)
          THEN /\ pc' = "version"
               /\ UNCHANGED << exitCode, outcome >>
          ELSE Finish(0, "cancelled")
  /\ UNCHANGED world
  /\ UNCHANGED << analysis, packages, idx, releaseUrls, errLog, steps, snap >>
  /\ UNCHANGED << preRes, resolved, nRuns, lib >>

\* The version analysis showed for package nm, or none.
AnalysedFor(nm) ==
  LET at == {i \in 1..Len(analysis.packagesToRelease) :
               analysis.packagesToRelease[i].name = nm}
  IN IF at = {} THEN << >>
     ELSE << analysis.packagesToRelease[CHOOSE i \in at : TRUE].newVersion >>

\* executeRelease step 1: runChangesetVersion(cwd, false).
StepVersion ==
  /\ pc = "version"
  /\ \E toolOk \in BOOLEAN :
       IF toolOk /\ pre.file # "corrupt"
       THEN LET consumed == ToolConsumes(csDir)
                newVer == [nm \in Managed |-> ToolVersion(nm, wtVer, pre, consumed)]
                pkgs == getVersionedPackagesFromDiff(newVer, head1Ver)
            IN /\ wtVer' = newVer
               /\ csDir' = csDir \ consumed
               /\ pre' = ToolPre(pre, consumed)
               /\ packages' = pkgs
               /\ steps' = Append(steps, Step("version", Null, "ok"))
               /\ resolved' = [nm \in Managed |-> resolved[nm] \o AnalysedFor(nm)]
               /\ errLog' = errLog
               /\ IF pkgs = << >>
                  THEN Finish(0, "nopackages")
                  ELSE /\ pc' = "lock"
                       /\ UNCHANGED << exitCode, outcome >>
       ELSE /\ steps' = Append(steps, Step("version", Null, "failed"))
            /\ errLog' = Append(errLog, Log("fatal", Null, "version"))
            /\ Finish(1, "failed")
            /\ UNCHANGED << wtVer, csDir, pre, packages, resolved >>
  /\ UNCHANGED << lockVer, head, head1Ver, tags, remote, releases >>
  /\ UNCHANGED << flags, analysis, idx, releaseUrls, snap >>
  /\ UNCHANGED << preRes, nRuns, lib >>

\* Mutant of lockThrows: the catch is missing.
lockRethrows(ok) == ~ok

\* The try / catch around pnpm install: whether the step's failure leaves
\* executeRelease as an exception.
lockThrows(ok) == FALSE

\* Step 2: pnpm install --lockfile-only; a failure is swallowed.
StepLock ==
  /\ pc = "lock"
  /\ \E ok \in BOOLEAN :
       /\ lockVer' = IF ok THEN wtVer ELSE lockVer
       /\ steps' = Append(steps, Step("lock", Null, IF ok THEN "ok" ELSE "failed"))
       /\ IF lockThrows(ok)
          THEN /\ errLog' = Append(errLog, Log("fatal", Null, "lock"))
               /\ Finish(1, "failed")
          ELSE /\ pc' = "commit"
               /\ UNCHANGED << errLog, exitCode, outcome >>
  /\ UNCHANGED << wtVer, csDir, pre, head, head1Ver, tags, remote, releases >>
  /\ UNCHANGED << flags, analysis, packages, idx, releaseUrls, snap >>
  /\ UNCHANGED << preRes, resolved, nRuns, lib >>

\* What git add . and git commit do: "ok" commits a dirty tree, "nothing"
\* is git's exit with status 1 on a clean tree, "failed" any other failure.
CommitResults == IF Dirty THEN {"ok", "failed"} ELSE {"nothing", "failed"}

\* The two streams of git commit: on a clean tree git writes "nothing to
\* commit, working tree clean" to its standard output and nothing to its
\* standard error; any other failure is reported on standard error.
gitCommitOutput(res) ==
  [stdout |-> IF res = "nothing" THEN << "nothing to commit" >> ELSE << >>,
   stderr |-> IF res = "failed" THEN << "fatal" >> ELSE << >>]

\* The message of the Error execSync throws with stdio "pipe": the command
\* line, followed by what the command wrote to its standard error.
execSyncMessage(out) == << "Command failed: git commit" >> \o out.stderr

\* The catch of step 3: the error leaves executeRelease unless
\* error.message includes "nothing to commit".
commitRethrows(res) ==
  /\ res # "ok"
  /\ "nothing to commit" \notin Range(execSyncMessage(gitCommitOutput(res)))

\* Step 3: the commit; only an error whose message holds "nothing to commit"
\* is caught.
StepCommit ==
  /\ pc = "commit"
  /\ \E res \in CommitResults :
       /\ steps' = Append(steps, Step("commit", Null, res))
       /\ IF res = "ok"
          THEN /\ head' = TreeOf(wtVer, csDir, pre, lockVer)
               /\ head1Ver' = head.ver
          ELSE UNCHANGED << head, head1Ver >>
       /\ IF commitRethrows(res)
          THEN /\ errLog' = Append(errLog, Log("fatal", Null, "commit"))
               /\ idx' = idx
               /\ Finish(1, "failed")
          ELSE /\ pc' = "tag"
               /\ idx' = 1
               /\ UNCHANGED << errLog, exitCode, outcome >>
  /\ UNCHANGED << wtVer, csDir, pre, lockVer, tags, remote, releases >>
  /\ UNCHANGED << flags, analysis, packages, releaseUrls, snap >>
  /\ UNCHANGED << preRes, resolved, nRuns, lib >>

\* Mutant of createTag: tagExists is not asked; git tag fails on a tag that
\* is there.
createTagUnchecked(pkg, existing, gitOk) ==
  IF gitOk /\ TagOf(pkg) \notin existing
  THEN [res |-> "created", tags |-> existing \cup {TagOf(pkg)}, threw |-> FALSE]
  ELSE [res |-> "failed", tags |-> existing, threw |-> TRUE]

\* Mutant of createTag: a failed git tag is reported, not thrown.
createTagNoThrow(pkg, existing, gitOk) ==
  IF TagOf(pkg) \in existing THEN [res |-> "skipped", tags |-> existing, threw |-> FALSE]
  ELSE IF gitOk THEN [res |-> "created", tags |-> existing \cup {TagOf(pkg)}, threw |-> FALSE]
  ELSE [res |-> "failed", tags |-> existing, threw |-> FALSE]

\* createTag for one package: "skipped" when the tag exists, else git tag
\* creates it or fails, and createTag throws on the failure.
createTag(pkg, existing, gitOk) ==
  IF TagOf(pkg) \in existing THEN [res |-> "skipped", tags |-> existing, threw |-> FALSE]
  ELSE IF gitOk THEN [res |-> "created", tags |-> existing \cup {TagOf(pkg)}, threw |-> FALSE]
  ELSE [res |-> "failed", tags |-> existing, threw |-> TRUE]

\* Mutant of AfterTags: the push is left out whatever --no-push says.
AfterTagsNeverPush(noPush) == "github"

\* What follows createTags in executeRelease: the push unless --no-push.
AfterTags(noPush) == IF ~noPush THEN "push" ELSE "github"

\* Step 4: createTags, one package per step; packages.map stops at the
\* first createTag that throws.
StepTag ==
  /\ pc = "tag"
  /\ \E gitOk \in BOOLEAN :
       LET pkg == packages[idx]
           r == createTag(pkg, tags, gitOk)
       IN /\ tags' = r.tags
          /\ steps' = Append(steps, Step("tag", pkg.name, r.res))
          /\ IF r.threw
             THEN /\ errLog' = Append(errLog, Log("fatal", pkg.name, "tag"))
                  /\ idx' = idx
                  /\ flags' = flags
                  /\ Finish(1, "failed")
             ELSE /\ idx' = idx + 1
                  /\ UNCHANGED << errLog, exitCode, outcome >>
                  /\ IF idx < Len(packages)
                     THEN /\ pc' = "tag"
                          /\ flags' = flags
                     ELSE \E noPush \in BOOLEAN :
                            /\ pc' = AfterTags(noPush)
                            /\ flags' = [flags EXCEPT
                                           !.noPush = IF noPush THEN "yes" ELSE "no"]
  /\ UNCHANGED << wtVer, csDir, pre, lockVer, head, head1Ver, remote, releases >>
  /\ UNCHANGED << analysis, packages, releaseUrls, snap >>
  /\ UNCHANGED << preRes, resolved, nRuns, lib >>

\* Step 5: pushTags: git push --follow-tags.
StepPush ==
  /\ pc = "push"
  /\ \E ok \in BOOLEAN :
       /\ steps' = Append(steps, Step("push", Null, IF ok THEN "ok" ELSE "failed"))
       /\ IF ok
          THEN /\ remote' = [ver |-> head.ver, tags |-> remote.tags \cup tags]
               /\ pc' = "github"
               /\ UNCHANGED << errLog, exitCode, outcome >>
          ELSE /\ remote' = remote
               /\ errLog' = Append(errLog, Log("fatal", Null, "push"))
               /\ Finish(1, "failed")
  /\ UNCHANGED << wtVer, csDir, pre, lockVer, head, head1Ver, tags, releases >>
  /\ UNCHANGED << flags, analysis, packages, idx, releaseUrls, snap >>
  /\ UNCHANGED << preRes, resolved, nRuns, lib >>

\* Step 6, before the loop: --skip-github, then isGhAuthenticated().
StepGithub ==
  /\ pc = "github"
  /\ \E skipGithub \in BOOLEAN :
       /\ flags' = [flags EXCEPT !.skipGithub = IF skipGithub THEN "yes" ELSE "no"]
       /\ IF skipGithub
          THEN /\ Finish(0, "released")
               /\ UNCHANGED << errLog, idx >>
          ELSE \E auth \in BOOLEAN :
                 IF auth
                 THEN /\ pc' = "publish"
                      /\ idx' = 1
                      /\ UNCHANGED << errLog, exitCode, outcome >>
                 ELSE /\ errLog' = Append(errLog, Log("warning", Null, "auth"))
                      /\ idx' = idx
                      /\ Finish(0, "released")
  /\ UNCHANGED world
  /\ UNCHANGED << analysis, packages, releaseUrls, steps, snap >>
  /\ UNCHANGED << preRes, resolved, nRuns, lib >>

\* Mutant of createGitHubRelease: without authentication it answers as its
\* dry-run branch does, success without a URL.
createGitHubReleaseSilent(info, auth, ghOk, existing) ==
  IF ~auth THEN [success |-> TRUE, url |-> << >>, error |-> Null]
  ELSE IF ghOk /\ info.tag \notin existing
       THEN [success |-> TRUE, url |-> << info.tag >>, error |-> Null]
       ELSE [success |-> FALSE, url |-> << >>, error |-> "gh"]

\* createGitHubRelease: its result, never an exception.  gh release create
\* fails for a tag that has a release.  url is the one-element sequence of
\* the release's URL (the URL of tag t is modelled by t), or empty.
createGitHubRelease(info, auth, ghOk, existing) ==
  IF ~auth THEN [success |-> FALSE, url |-> << >>, error |-> "auth"]
  ELSE IF ghOk /\ info.tag \notin existing
       THEN [success |-> TRUE, url |-> << info.tag >>, error |-> Null]
       ELSE [success |-> FALSE, url |-> << >>, error |-> "gh"]

\* Step 6, the loop body for one package; after the last one, the summary.
StepPublish ==
  /\ pc = "publish"
  /\ \E auth \in BOOLEAN, ghOk \in BOOLEAN :
       LET pkg == packages[idx]
           info == buildReleaseInfo(pkg)
           result == createGitHubRelease(info, auth, ghOk, releases)
       IN /\ releases' = IF result.success THEN releases \cup {info.tag} ELSE releases
          /\ steps' = Append(steps, Step("release", pkg.name,
                                         IF ~auth THEN "noauth"
                                         ELSE IF result.success THEN "ok" ELSE "failed"))
          /\ releaseUrls' = IF result.success /\ result.url # << >>
                            THEN releaseUrls \o result.url ELSE releaseUrls
          /\ errLog' = IF ~(result.success /\ result.url # << >>) /\ result.error # Null
                       THEN Append(errLog, Log("release-failed", pkg.name, result.error))
                       ELSE errLog
  /\ idx' = idx + 1
  /\ IF idx < Len(packages)
     THEN /\ pc' = "publish"
          /\ UNCHANGED << exitCode, outcome >>
     ELSE Finish(0, "released")
  /\ UNCHANGED << wtVer, csDir, pre, lockVer, head, head1Ver, tags, remote >>
  /\ UNCHANGED << flags, analysis, packages, snap >>
  /\ UNCHANGED << preRes, resolved, nRuns, lib >>

Next ==
  \/ Enter
  \/ Exit
  \/ Status
  \/ StartRelease
  \/ Confirm
  \/ StepVersion
  \/ StepLock
  \/ StepCommit
  \/ StepTag
  \/ StepPush
  \/ StepGithub
  \/ StepPublish

Spec == Init /\ [][Next]_vars

\* One prerelease window followed over several release runs: the repository
\* starts with one pending patch changeset for A, and a developer adds the
\* same kind of changeset again once it is consumed.
WindowFiles == {"a-patch.md"}

InitW ==
  /\ Init
  /\ csDir = WindowFiles
  /\ pre = PreMissing
  /\ head1Ver = InitVer
  /\ tags = {}

AddChangesetW == AddChangesetFrom(WindowFiles)

StartReleaseW == StartReleaseUpTo(MaxWindowRuns)

NextW ==
  \/ Enter
  \/ Exit
  \/ AddChangesetW
  \/ StartReleaseW
  \/ Confirm
  \/ StepVersion
  \/ StepLock
  \/ StepCommit
  \/ StepTag
  \/ StepPush
  \/ StepGithub
  \/ StepPublish

SpecW == InitW /\ [][NextW]_vars

\* ------------------------------------------------- changeset analysis
\* (changeset/scripts/lib/commits.ts)
\* Lists handed to getHighestBump are at most this long.
MaxBumpList == 2
\* Entries of the .changeset directory a library function is called on.
MaxStoreFiles == 2
\* Calls of createTag in a row.
MaxTagCalls == 2
\* Commits in the range handed to groupCommitsByScope.
MaxCommits == 2

BumpTypes == {"major", "minor", "patch", "none"}

USER_FACING_TYPES == {"feat", "fix", "perf", "refactor"}
INTERNAL_TYPES == {"chore", "docs", "test", "ci", "build", "style"}

\* The type token of a subject line as written, and String.toLowerCase of it.
RawTypes == USER_FACING_TYPES \cup INTERNAL_TYPES \cup {"Feat", "FIX", "wip"}
toLowerCase(t) == CASE t = "Feat" -> "feat" [] t = "FIX" -> "fix" [] OTHER -> t

\* Scope tokens of subject lines (Null: no parenthesis); "zzz" names no package.
Scopes == {"ui", "api", "zzz", Null}

\* scopeToPackage: the directory name of each managed package leads to it.
ScopeToPackage == [s \in {"ui", "api"} |-> IF s = "api" THEN "B" ELSE "A"]

\* A subject line by the parts the pattern of parseConventionalCommit looks
\* for: type(scope)!: description; colon is FALSE for a line without
\* ': description'.
Subject(t, sc, bang, colon) == [type |-> t, scope |-> sc, bang |-> bang, colon |-> colon]

Subjects ==
  {Subject(t, sc, b, c) : t \in RawTypes, sc \in {"api", Null}, b \in BOOLEAN, c \in BOOLEAN}

NotConventional == [parsed |-> FALSE, type |-> Null, scope |-> Null, breaking |-> FALSE]

parseConventionalCommit(message) ==
  IF ~message.colon THEN NotConventional
  ELSE [parsed |-> TRUE, type |-> toLowerCase(message.type), scope |-> message.scope,
        breaking |-> message.bang]

\* Mutant of getBumpFromCommitType: the breaking flag is looked at only
\* where the type gives no bump.
getBumpFromCommitTypeFirst(commit) ==
  CASE commit.type = "feat" -> "minor"
    [] commit.type \in {"fix", "perf", "refactor"} -> "patch"
    [] OTHER -> IF commit.breaking THEN "major" ELSE "none"

getBumpFromCommitType(commit) ==
  IF commit.breaking THEN "major"
  ELSE CASE commit.type = "feat" -> "minor"
         [] commit.type \in {"fix", "perf", "refactor"} -> "patch"
         [] OTHER -> "none"

\* Mutant of getHighestBump: patch is looked for before minor.
getHighestBumpPatchFirst(bumps) ==
  IF "major" \in Range(bumps) THEN "major"
  ELSE IF "patch" \in Range(bumps) THEN "patch"
  ELSE IF "minor" \in Range(bumps) THEN "minor"
  ELSE "none"

getHighestBump(bumps) ==
  IF "major" \in Range(bumps) THEN "major"
  ELSE IF "minor" \in Range(bumps) THEN "minor"
  ELSE IF "patch" \in Range(bumps) THEN "patch"
  ELSE "none"

\* The first loop of groupCommitsByScope: the Map grouped, by package name.
RECURSIVE groupLoop(_, _, _)
groupLoop(commits, scopeToPackage, grouped) ==
  IF commits = << >> THEN grouped
  ELSE LET commit == Head(commits)
           scope == commit.scope
       IN IF scope = Null THEN groupLoop(Tail(commits), scopeToPackage, grouped)
          ELSE IF scope \notin DOMAIN scopeToPackage
          THEN groupLoop(Tail(commits), scopeToPackage, grouped)
          ELSE LET packageName == scopeToPackage[scope]
                   g == IF packageName \in DOMAIN grouped THEN grouped
                        ELSE grouped @@ (packageName :>
                               [packageName |-> packageName, scope |-> scope,
                                commits |-> << >>, suggestedBump |-> "none",
                                reason |-> ""])
               IN groupLoop(Tail(commits), scopeToPackage,
                            [g EXCEPT ![packageName].commits = Append(@, commit)])

reasonOf(commits) ==
  IF \E i \in 1..Len(commits) : commits[i].breaking THEN "breaking change detected"
  ELSE IF \E i \in 1..Len(commits) : commits[i].type = "feat" THEN "feat commit detected"
  ELSE IF \E i \in 1..Len(commits) : commits[i].type = "fix" THEN "fix commit detected"
  ELSE IF \E i \in 1..Len(commits) : commits[i].type = "perf" THEN "perf commit detected"
  ELSE IF \E i \in 1..Len(commits) : commits[i].type = "refactor"
       THEN "refactor commit detected"
  ELSE ""

\* Mutant of groupCommitsByScope: the bump is that of the group's last commit.
groupCommitsByScopeLast(commits, scopeToPackage) ==
  LET grouped == groupLoop(commits, scopeToPackage, EmptyMap)
  IN [pk \in DOMAIN grouped |->
        [grouped[pk] EXCEPT
           !.suggestedBump =
              getBumpFromCommitType(grouped[pk].commits[Len(grouped[pk].commits)]),
           !.reason = reasonOf(grouped[pk].commits)]]

groupCommitsByScope(commits, scopeToPackage) ==
  LET grouped == groupLoop(commits, scopeToPackage, EmptyMap)
  IN [pk \in DOMAIN grouped |->
        [grouped[pk] EXCEPT
           !.suggestedBump =
              getHighestBump([i \in 1..Len(grouped[pk].commits) |->
                                getBumpFromCommitType(grouped[pk].commits[i])]),
           !.reason = reasonOf(grouped[pk].commits)]]

\* Parsed commits of a range: three types, every scope, with and without '!'.
RangeCommits ==
  {[parsed |-> TRUE, type |-> t, scope |-> sc, breaking |-> b] :
     t \in {"feat", "fix", "chore"}, sc \in Scopes, b \in BOOLEAN}

SeqsUpTo(S, n) == UNION {[1..k -> S] : k \in 0..n}

\* ------------------------------------------- changeset analysis: analyze
\* (changeset/scripts/lib/prompts.ts, with the package helpers it imports)
\* A path is the sequence of its segments; a managed package's relativePath
\* is << root, directory >>.
PackageRoots == {"apps", "packages", "tooling"}

\* The characters of the directory names used here, for String.includes.
Spell(name) ==
  CASE name = "apps" -> << "a", "p", "p", "s" >>
    [] name = "packages" -> << "p", "a", "c", "k", "a", "g", "e", "s" >>
    [] name = "tooling" -> << "t", "o", "o", "l", "i", "n", "g" >>
    [] name = "ui" -> << "u", "i" >>
    [] name = "ui-kit" -> << "u", "i", "-", "k", "i", "t" >>
    [] name = "api" -> << "a", "p", "i" >>

\* The string of a path: its segments joined by '/'.
RECURSIVE PathString(_)
PathString(segs) ==
  IF segs = << >> THEN << >>
  ELSE IF Len(segs) = 1 THEN Spell(segs[1])
  ELSE Spell(segs[1]) \o << "/" >> \o PathString(Tail(segs))

\* String.prototype.includes on strings given by their characters.
includes(hay, needle) ==
  \E i \in 0..(Len(hay) - Len(needle)) : SubSeq(hay, i + 1, i + Len(needle)) = needle

\* extractScope: the segment after a leading apps/, packages/ or tooling/.
extractScope(filePath) ==
  IF Len(filePath) >= 2 /\ filePath[1] \in PackageRoots THEN filePath[2] ELSE Null

Package(name, root, dir) == [name |-> name, relativePath |-> << root, dir >>]

\* getAllPackages lists apps/ before packages/: the repository with packages
\* ui (A) and api (B), and the same with the application ui-kit (K).
PackageLists ==
  { << Package("A", "packages", "ui"), Package("B", "packages", "api") >>,
    << Package("K", "apps", "ui-kit"), Package("A", "packages", "ui"),
       Package("B", "packages", "api") >> }

\* getChangedFiles: the changed files of the range, each under a package's
\* directory or at the root.
ChangedFileLists ==
  { << >>,
    << << "packages", "ui", "src", "index.ts" >> >>,
    << << "packages", "api", "src", "index.ts" >> >>,
    << << "packages", "ui", "src", "index.ts" >>, << "packages", "api", "src", "index.ts" >> >>,
    << << "README.md" >>, << "packages", "ui", "src", "index.ts" >> >> }

\* Commits of the range for analyze; hashOf gives each its hash (its place).
AnalyzeCommits ==
  {[parsed |-> TRUE, type |-> t, scope |-> sc, breaking |-> b] :
     t \in {"feat", "chore"}, sc \in {"ui", "api", Null}, b \in BOOLEAN}

hashOf(commits) == [i \in 1..Len(commits) |-> commits[i] @@ [hash |-> i]]

\* The loop filling scopeToPackage: a later package replaces an earlier one
\* of the same scope.
RECURSIVE scopeToPackageOf(_, _)
scopeToPackageOf(pkgs, map) ==
  IF pkgs = << >> THEN map
  ELSE LET scope == extractScope(Head(pkgs).relativePath)
       IN scopeToPackageOf(Tail(pkgs),
                           IF scope = Null THEN map
                           ELSE (scope :> Head(pkgs).name) @@ map)

\* The keys of the Map groupCommitsByScope returns, in insertion order.
RECURSIVE groupedKeys(_, _, _)
groupedKeys(commits, scopeToPackage, keys) ==
  IF commits = << >> THEN keys
  ELSE LET scope == Head(commits).scope
       IN IF scope = Null \/ scope \notin DOMAIN scopeToPackage
          THEN groupedKeys(Tail(commits), scopeToPackage, keys)
          ELSE IF scopeToPackage[scope] \in Range(keys)
          THEN groupedKeys(Tail(commits), scopeToPackage, keys)
          ELSE groupedKeys(Tail(commits), scopeToPackage,
                           Append(keys, scopeToPackage[scope]))

\* packages.find((p) => p.relativePath.includes(scope)): the places of the
\* packages that pass, the first of which find returns.
findByScope(pkgs, scope) ==
  {i \in 1..Len(pkgs) : includes(PathString(pkgs[i].relativePath), Spell(scope))}

\* The loop over the changed files: a package found for a file's scope and
\* not grouped yet gets every unscoped commit, as a patch.
RECURSIVE fallbackLoop(_, _, _, _)
fallbackLoop(files, pkgs, commits, g) ==
  IF files = << >> THEN g
  ELSE LET scope == extractScope(Head(files))
           found == IF scope = Null THEN {} ELSE findByScope(pkgs, scope)
       IN IF found = {} THEN fallbackLoop(Tail(files), pkgs, commits, g)
          ELSE LET pkg == pkgs[CHOOSE i \in found : \A j \in found : i <= j]
                   \* commits.filter((c) => !c.scope)
                   unscopedCommits ==
                     FilterSeq(commits, {c \in Range(commits) : c.scope = Null})
               IN IF pkg.name \notin DOMAIN g.grouped /\ Len(unscopedCommits) > 0
                  THEN fallbackLoop(Tail(files), pkgs, commits,
                         [grouped |-> g.grouped @@ (pkg.name :>
                                        [packageName |-> pkg.name, scope |-> scope,
                                         commits |-> unscopedCommits,
                                         suggestedBump |-> "patch",
                                         reason |-> "changes detected"]),
                          keys |-> Append(g.keys, pkg.name)])
                  ELSE fallbackLoop(Tail(files), pkgs, commits, g)

allCommitsInternal(commits) ==
  \A i \in 1..Len(commits) : commits[i].type \in INTERNAL_TYPES

\* group.commits.filter((c) => ["feat", "fix", "perf", "refactor"].includes(c.type))
userFacingOf(commits) ==
  FilterSeq(commits, {c \in Range(commits) : c.type \in {"feat", "fix", "perf", "refactor"}})

\* Mutant of keepPackage: no group is skipped.
keepPackageAlways(group, noChangesetNeeded) == TRUE

\* Whether the loop over grouped keeps a group: it skips one without
\* user-facing commits unless no changeset is needed at all.
keepPackage(group, noChangesetNeeded) ==
  ~(Len(userFacingOf(group.commits)) = 0 /\ ~noChangesetNeeded)

RECURSIVE analysisPackagesOf(_, _, _)
analysisPackagesOf(keys, grouped, noChangesetNeeded) ==
  IF keys = << >> THEN << >>
  ELSE LET group == grouped[Head(keys)]
           userFacingCommits == userFacingOf(group.commits)
       IN IF keepPackage(group, noChangesetNeeded)
          THEN << [name |-> Head(keys), scope |-> group.scope,
                   suggestedBump |-> group.suggestedBump, reason |-> group.reason,
                   commits |-> IF Len(userFacingCommits) > 0 THEN userFacingCommits
                               ELSE group.commits] >>
               \o analysisPackagesOf(Tail(keys), grouped, noChangesetNeeded)
          ELSE analysisPackagesOf(Tail(keys), grouped, noChangesetNeeded)

\* analyze: grouped is the Map after the file loop, packages the result.
analyzeChanges(pkgs, range, changedFiles) ==
  LET commits == hashOf(range)
      scopeToPackage == scopeToPackageOf(pkgs, EmptyMap)
      g == fallbackLoop(changedFiles, pkgs, commits,
                        [grouped |-> groupCommitsByScope(commits, scopeToPackage),
                         keys |-> groupedKeys(commits, scopeToPackage, << >>)])
      noChangesetNeeded == allCommitsInternal(commits)
  IN [grouped |-> g.grouped,
      packages |-> analysisPackagesOf(g.keys, g.grouped, noChangesetNeeded),
      noChangesetNeeded |-> noChangesetNeeded]

\* The header generateChangesetContent writes: one line per package whose
\* bump is not none.
RECURSIVE generateChangesetContent(_)
generateChangesetContent(finalPackages) ==
  IF finalPackages = << >> THEN << >>
  ELSE IF Head(finalPackages).bump # "none"
       THEN << [pkg |-> Head(finalPackages).name, bump |-> Head(finalPackages).bump] >>
            \o generateChangesetContent(Tail(finalPackages))
       ELSE generateChangesetContent(Tail(finalPackages))

\* --bump scope:level, or none given.
BumpOverrides == {EmptyMap, [s \in {"ui"} |-> "major"]}

\* main without a terminal, after analyze: the empty changeset when nothing
\* is user facing, else the changeset of the analysed packages with the
\* --bump overrides applied.
createChangeset(result, bumpOverrides) ==
  IF result.noChangesetNeeded \/ Len(result.packages) = 0
  THEN [kind |-> "empty", header |-> << >>]
  ELSE [kind |-> "changeset",
        header |-> generateChangesetContent(
                     [i \in 1..Len(result.packages) |->
                        [name |-> result.packages[i].name,
                         bump |-> IF result.packages[i].scope \in DOMAIN bumpOverrides
                                  THEN bumpOverrides[result.packages[i].scope]
                                  ELSE result.packages[i].suggestedBump]])]

\* ------------------------------------------------------------ skills run
\* (src/commands/run.ts)
\* Arguments after `skills run` are at most this many.
MaxArgs == 3

\* An entry is a file name (single) or a table of subcommands with the key
\* _default.
ENTRY_POINTS ==
  [sk \in {"commit", "changeset", "release"} |->
     IF sk = "commit" THEN [single |-> TRUE, file |-> "commit.ts", table |-> EmptyMap]
     ELSE IF sk = "release"
     THEN [single |-> TRUE, file |-> "release.ts", table |-> EmptyMap]
     ELSE [single |-> FALSE, file |-> Null,
           table |-> [k \in {"_default", "create", "validate", "prerelease"} |->
                        CASE k = "validate" -> "validate.ts"
                          [] k = "prerelease" -> "prerelease.ts"
                          [] OTHER -> "create.ts"]]]

\* discoverBundledSkills: the skill directories of the package; review has
\* no scripts directory.
BundledSkills ==
  {[name |-> n, hasScripts |-> (n # "review")] :
     n \in {"changeset", "commit", "pr", "release", "review"}}

\* Properties every object inherits, which the in operator also finds.
ObjectPrototypeKeys == {"toString", "constructor"}

ArgTokens ==
  {"changeset", "commit", "review", "pr", "nope", "validate", "_default", "toString",
   "--help", "", "bogus"}

startsWithDash(arg) == arg \in {"--help"}

RunResult(exit, ran, script, forwarded, why) ==
  [exit |-> exit, ran |-> ran, script |-> script, forwarded |-> forwarded, why |-> why]

\* runCommand(args) followed by the end of the process: scriptExists is
\* existsSync(scriptPath), scriptStatus the status of the script when run.
runCommand(args, scriptExists, scriptStatus) ==
  IF args = << >> \/ args[1] = "" THEN RunResult(1, FALSE, Null, << >>, "usage")
  ELSE LET skillName == args[1]
           found == {sk \in BundledSkills : sk.name = skillName}
       IN IF found = {} THEN RunResult(1, FALSE, Null, << >>, "unknown skill")
          ELSE IF ~(CHOOSE sk \in found : TRUE).hasScripts
          THEN RunResult(1, FALSE, Null, << >>, "no scripts")
          ELSE IF skillName \notin DOMAIN ENTRY_POINTS
          THEN RunResult(1, FALSE, Null, << >>, "no entry mapping")
          ELSE LET entry == ENTRY_POINTS[skillName]
                   absent == Len(args) < 2 \/ args[2] = ""
                   sel == IF entry.single
                          THEN [file |-> entry.file, forward |-> Tail(args), why |-> "ok"]
                          ELSE IF absent \/ startsWithDash(args[2])
                          THEN [file |-> entry.table["_default"], forward |-> Tail(args),
                                why |-> "ok"]
                          ELSE IF args[2] \in DOMAIN entry.table
                          THEN [file |-> entry.table[args[2]],
                                forward |-> SubSeq(args, 3, Len(args)), why |-> "ok"]
                          ELSE IF args[2] \in ObjectPrototypeKeys
                          THEN [file |-> Null, forward |-> SubSeq(args, 3, Len(args)),
                                why |-> "TypeError"]
                          ELSE [file |-> Null, forward |-> Tail(args),
                                why |-> "unknown subcommand"]
               IN IF sel.why # "ok" THEN RunResult(1, FALSE, Null, << >>, sel.why)
                  ELSE IF ~scriptExists
                  THEN RunResult(1, FALSE, sel.file, sel.forward, "script not found")
                  ELSE RunResult(scriptStatus, TRUE, sel.file, sel.forward, "ran")

\* ------------------------------------------- library functions on their own
\* A function of the libraries called with arguments of its own, outside a
\* release process: lib holds the function's name and arguments and, once
\* called, its result.
Reverse(s) == [i \in 1..Len(s) |-> s[Len(s) + 1 - i]]

\* Every name an entry of .changeset may have here.
AllEntries == MdFiles \cup StaticFiles

\* The directories of at most n entries.
LibDirs(n) == {d \in SUBSET AllEntries : Cardinality(d) <= n}

\* Orders in which readdirSync may list the entries.
LibOrders == {FileOrder, Reverse(FileOrder)}

\* package.json versions the resolution is called on: A's well formed,
\* with a component that is no number, without patch component, not there.
LibTrees ==
  {[InitVer EXCEPT !["A"] = v] :
     v \in {Ver(1, 4, 2), Ver(1, NaN, 2), Ver(1, 4, NaN), NoVersionField}}

LibPre == {PreMissing, PreFile("pre", "beta", InitVer, {})}

LibVersions == {Ver(1, 4, 2), PreVer(1, 4, 2, "beta", 3), Ver(0, 9, 9), Ver(1, NaN, 2)}

\* The packages createTag is called for.
LibPackages ==
  {[name |-> "A", oldVersion |-> Ver(1, 4, 2), newVersion |-> Ver(1, 5, 0),
    bump |-> "minor", prerelease |-> FALSE],
   [name |-> "B", oldVersion |-> Ver(0, 3, 0), newVersion |-> Ver(0, 3, 1),
    bump |-> "patch", prerelease |-> FALSE]}

StoreCalls(n) ==
  {[fn |-> "getPendingChangesets", order |-> o, dir |-> d, called |-> FALSE] :
     o \in LibOrders, d \in LibDirs(n)}
  \cup {[fn |-> "validate", exists |-> TRUE, order |-> o, dir |-> d, called |-> FALSE] :
          o \in LibOrders, d \in LibDirs(n)}
  \cup {[fn |-> "validate", exists |-> FALSE, order |-> FileOrder, dir |-> {},
          called |-> FALSE]}
  \cup {[fn |-> "simulateVersion", order |-> o, dir |-> d, wt |-> w, pre |-> p,
          called |-> FALSE] :
          o \in LibOrders, d \in LibDirs(n), w \in LibTrees, p \in LibPre}

VersionCalls ==
  {[fn |-> "bumpVersion", version |-> v, bump |-> b, prereleaseTag |-> t,
    called |-> FALSE] : v \in LibVersions, b \in Bumps, t \in {Null, "beta"}}

TagCalls ==
  {[fn |-> "createTag", tags |-> t, calls |-> << >>, called |-> FALSE] :
     t \in {{}, {[name |-> "A", version |-> Ver(1, 5, 0)]}}}

BumpCalls(n) ==
  {[fn |-> "getHighestBump", a |-> a, b |-> b, c |-> c, called |-> FALSE] :
     a \in SeqsUpTo(BumpTypes, n), b \in SeqsUpTo(BumpTypes, n), c \in BumpTypes}

CommitCalls(n) ==
  {[fn |-> "getBumpFromCommitType", message |-> m, called |-> FALSE] : m \in Subjects}
  \cup {[fn |-> "groupCommitsByScope", commits |-> cs, called |-> FALSE] :
          cs \in SeqsUpTo(RangeCommits, n)}

\* analyze and the changeset written from it; skills run.
AnalyzeCalls(n) ==
  {[fn |-> "analyze", packages |-> ps, commits |-> cs, changedFiles |-> fs,
    bumpOverrides |-> ov, called |-> FALSE] :
     ps \in PackageLists, cs \in SeqsUpTo(AnalyzeCommits, n), fs \in ChangedFileLists,
     ov \in BumpOverrides}

RunCalls(n) ==
  {[fn |-> "runCommand", args |-> a, called |-> FALSE] : a \in SeqsUpTo(ArgTokens, n)}

Quiet == UNCHANGED << wtVer, csDir, pre, lockVer, head, head1Ver, tags, remote, releases,
                      pc, flags, analysis, packages, idx, releaseUrls, errLog, steps,
                      exitCode, outcome, snap, preRes, resolved, nRuns >>

Returned(out) == lib' = [lib EXCEPT !.called = TRUE] @@ [out |-> out]

CallGetHighestBump ==
  /\ lib.fn = "getHighestBump"
  /\ ~lib.called
  /\ LET ga == getHighestBump(lib.a)
         gb == getHighestBump(lib.b)
     IN Returned([a |-> ga, b |-> gb,
                  ab |-> getHighestBump(lib.a \o lib.b),
                  ba |-> getHighestBump(lib.b \o lib.a),
                  aa |-> getHighestBump(lib.a \o lib.a),
                  an |-> getHighestBump(lib.a \o << "none" >>),
                  left |-> getHighestBump(<< getHighestBump(<< ga, gb >>), lib.c >>),
                  right |-> getHighestBump(<< ga, getHighestBump(<< gb, lib.c >>) >>),
                  abc |-> getHighestBump(lib.a \o lib.b \o << lib.c >>)])
  /\ Quiet

CallGetBumpFromCommitType ==
  /\ lib.fn = "getBumpFromCommitType"
  /\ ~lib.called
  /\ LET commit == parseConventionalCommit(lib.message)
     IN Returned([commit |-> commit,
                  bump |-> IF commit.parsed THEN getBumpFromCommitType(commit)
                           ELSE "none"])
  /\ Quiet

CallGroupCommitsByScope ==
  /\ lib.fn = "groupCommitsByScope"
  /\ ~lib.called
  /\ Returned(groupCommitsByScope(lib.commits, ScopeToPackage))
  /\ Quiet

CallGetPendingChangesets ==
  /\ lib.fn = "getPendingChangesets"
  /\ ~lib.called
  /\ Returned(filterChangesets(readdirSync(lib.order, lib.dir)))
  /\ Quiet

CallValidate ==
  /\ lib.fn = "validate"
  /\ ~lib.called
  /\ Returned([validation |-> validate(lib.exists, lib.order, lib.dir),
               pending |-> IF lib.exists
                           THEN filterChangesets(readdirSync(lib.order, lib.dir))
                           ELSE << >>])
  /\ Quiet

CallSimulateVersion ==
  /\ lib.fn = "simulateVersion"
  /\ ~lib.called
  /\ Returned(simulateVersionOf(filterChangesets(readdirSync(lib.order, lib.dir)),
                                lib.wt, lib.pre))
  /\ Quiet

CallBumpVersion ==
  /\ lib.fn = "bumpVersion"
  /\ ~lib.called
  /\ Returned(bumpVersion(lib.version, lib.bump, lib.prereleaseTag))
  /\ Quiet

\* createTag called for a package on the tags there are; gitOk: git tag
\* succeeds when the tag is not there (it never does when it is).
CallCreateTag ==
  /\ lib.fn = "createTag"
  /\ Len(lib.calls) < MaxTagCalls
  /\ \E pkg \in LibPackages, gitOk \in BOOLEAN :
       LET r == createTag(pkg, lib.tags, gitOk)
       IN lib' = [lib EXCEPT !.called = TRUE,
                             !.tags = r.tags,
                             !.calls = Append(@, [pkg |-> pkg, before |-> lib.tags,
                                                  after |-> r.tags,
                                                  created |-> (r.res = "created"),
                                                  threw |-> r.threw])]
  /\ Quiet

CallAnalyze ==
  /\ lib.fn = "analyze"
  /\ ~lib.called
  /\ LET result == analyzeChanges(lib.packages, lib.commits, lib.changedFiles)
     IN Returned([analysis |-> result,
                  changeset |-> createChangeset(result, lib.bumpOverrides)])
  /\ Quiet

CallRunCommand ==
  /\ lib.fn = "runCommand"
  /\ ~lib.called
  /\ \E scriptExists \in BOOLEAN, scriptStatus \in {0, 2} :
       Returned(runCommand(lib.args, scriptExists, scriptStatus))
  /\ Quiet

InitLib ==
  /\ wtVer = InitVer
  /\ csDir = {}
  /\ pre = PreMissing
  /\ lockVer = InitVer
  /\ head = TreeOf(wtVer, csDir, pre, lockVer)
  /\ head1Ver = InitVer
  /\ tags = {}
  /\ remote = [ver |-> InitVer, tags |-> {}]
  /\ releases = {}
  /\ pc = "idle"
  /\ flags = NoFlags
  /\ analysis = NoAnalysis
  /\ packages = << >>
  /\ idx = 0
  /\ releaseUrls = << >>
  /\ errLog = << >>
  /\ steps = << >>
  /\ exitCode = -1
  /\ outcome = "none"
  /\ snap = world
  /\ preRes = NoPreRes
  /\ resolved = [p \in Managed |-> << >>]
  /\ nRuns = 0
  /\ lib \in StoreCalls(MaxStoreFiles) \cup VersionCalls \cup TagCalls
             \cup BumpCalls(MaxBumpList) \cup CommitCalls(MaxCommits)
             \cup AnalyzeCalls(MaxCommits) \cup RunCalls(MaxArgs)

NextLib ==
  \/ CallGetHighestBump
  \/ CallGetBumpFromCommitType
  \/ CallGroupCommitsByScope
  \/ CallGetPendingChangesets
  \/ CallValidate
  \/ CallSimulateVersion
  \/ CallBumpVersion
  \/ CallCreateTag
  \/ CallAnalyze
  \/ CallRunCommand

SpecLib == InitLib /\ [][NextLib]_vars

\* ---------------------------------------------------------------- claims
IsFatal(st) ==
  \/ st.step \in {"version", "push"} /\ st.res = "failed"
  \/ st.step = "commit" /\ commitRethrows(st.res)
  \/ st.step = "tag" /\ st.res = "failed"

StepsOf(kind) == {i \in 1..Len(steps) : steps[i].step = kind}

\* C1: in a release run, once the version step, the commit (unless its
\* error is caught), a tag creation or the push has failed, the run
\* performs no further step and the process has ended with status 1.
C1_FatalHalts ==
  \A i \in 1..Len(steps) :
    IsFatal(steps[i]) => /\ i = Len(steps)
                         /\ pc = "idle"
                         /\ exitCode = 1

C1_Witness ==
  /\ Len(steps) >= 2
  /\ steps[Len(steps)] = Step("push", Null, "failed")
  /\ \E i \in StepsOf("commit") : steps[i].res = "ok"

\* C2: when the tag of one released package could not be created, every
\* other released package's tag exists after the step or its creation was
\* attempted and failed.
C2_TagsIndependent ==
  (pc = "idle" /\ \E i \in StepsOf("tag") : steps[i].res = "failed")
    => \A k \in 1..Len(packages) :
         \/ TagOf(packages[k]) \in tags
         \/ Step("tag", packages[k].name, "failed") \in Range(steps)

\* The run of claim C3: changesets for A (minor) and B (patch) were pending,
\* push and hosted releases were not switched off, the hosting tool was not
\* authenticated at B's release and created A's release, nothing else failed.
C3_Scenario ==
  /\ pc = "idle"
  /\ snap[2] = {"a-minor.md", "b-patch.md"}
  /\ flags.noPush = "no"
  /\ flags.skipGithub = "no"
  /\ Step("release", "B", "noauth") \in Range(steps)
  /\ Step("release", "A", "ok") \in Range(steps)
  /\ \A i \in 1..Len(steps) : steps[i].res = "failed" => steps[i].step = "lock"

\* C3: that run reports both packages, has both tags created and on the
\* remote, lists a release URL for A, logs the failed release of B, and
\* ends with status 0.
C3_PartialPublish ==
  C3_Scenario =>
    /\ exitCode = 0
    /\ outcome = "released"
    /\ {packages[k].name : k \in 1..Len(packages)} = {"A", "B"}
    /\ \A k \in 1..Len(packages) :
         /\ TagOf(packages[k]) \in tags
         /\ TagOf(packages[k]) \in remote.tags
         /\ packages[k].name = "A" => TagOf(packages[k]) \in Range(releaseUrls)
         /\ packages[k].name = "B" =>
              /\ TagOf(packages[k]) \notin Range(releaseUrls)
              /\ Log("release-failed", "B", "auth") \in Range(errLog)

C3_Witness == C3_Scenario

\* What executeRelease does after the version step, for the inputs read.
AllStepsDone ==
  /\ StepsOf("lock") # {}
  /\ StepsOf("commit") # {}
  /\ \A k \in 1..Len(packages) :
       \E i \in StepsOf("tag") : steps[i].pkg = packages[k].name
  /\ flags.noPush = "no" => StepsOf("push") # {}
  /\ (flags.skipGithub = "no" /\ Log("warning", Null, "auth") \notin Range(errLog))
       => \A k \in 1..Len(packages) :
            \E i \in StepsOf("release") : steps[i].pkg = packages[k].name

BestEffortFailed ==
  \/ Step("lock", Null, "failed") \in Range(steps)
  \/ \E i \in StepsOf("release") : steps[i].res # "ok"

\* C4: a failed lockfile update or a failed hosted release does not end the
\* run: when no fatal step failed, every later step is performed and the
\* process ends with status 0.
C4_BestEffort ==
  (BestEffortFailed /\ \A i \in 1..Len(steps) : ~IsFatal(steps[i]))
    => /\ exitCode # 1
       /\ pc = "idle" => (exitCode = 0 /\ outcome = "released" /\ AllStepsDone)

C4_Witness ==
  /\ pc = "idle"
  /\ Step("lock", Null, "failed") \in Range(steps)
  /\ \E i \in StepsOf("release") : steps[i].res = "failed"
  /\ \E i \in StepsOf("release") : steps[i].res = "ok" /\ i = Len(steps)

\* C5: a dry run, and a run the user declines at the prompt, leave the work
\* tree, the commits, the tags, the remote and the hosting service as they
\* were when the run started, and make no external call.
C5_NoSideEffects ==
  (flags.mode = "dry" \/ flags.answer \in {"no", "cancel"})
    => /\ world = snap
       /\ steps = << >>
       /\ pc = "idle"
       /\ exitCode = 0

C5_Witness ==
  /\ flags.answer = "no"
  /\ analysis.packagesToRelease # << >>
  /\ outcome = "cancelled"

Decision(name, old, new, bump, prerelease) ==
  [name |-> name, oldVersion |-> old, newVersion |-> new, bump |-> bump,
   prerelease |-> prerelease]

RealDecisions ==
  {Decision(packages[k].name, packages[k].oldVersion, packages[k].newVersion,
            packages[k].bump, packages[k].prerelease) : k \in 1..Len(packages)}

AnalysedDecisions ==
  LET a == analysis.packagesToRelease
  IN {Decision(a[k].name, a[k].currentVersion, a[k].newVersion, a[k].bump,
               a[k].prerelease) : k \in 1..Len(a)}

\* C6: the decisions analysis computes (runChangesetVersion with dryRun)
\* are the decisions the real run, started from the same state, uses for
\* its tags and releases.
C6_SameDecisions ==
  (StepsOf("version") # {} /\ steps[1].res = "ok") => RealDecisions = AnalysedDecisions

\* C7: inside a prerelease window with tag t, the first version resolved for
\* a package ends in -t.0 and each later one is the one before it with the
\* counter raised by one.
C7_CounterAdvances ==
  getStatus(pre).active =>
    \A p \in Managed : \A i \in 1..Len(resolved[p]) :
      /\ resolved[p][i].tag = pre.tag
      /\ i = 1 => resolved[p][i].n = 0
      /\ i > 1 => resolved[p][i] = [resolved[p][i - 1] EXCEPT !.n = @ + 1]

\* C8: enter changes pre.json only from an inactive status and with a tag
\* of the fixed set; from an active status or with another tag it ends with
\* status 1, does not run the tool and leaves pre.json as it was.
C8_EnterGuarded ==
  preRes.op = "enter" =>
    /\ pre = preRes.after
    /\ preRes.after # preRes.before =>
         (~getStatus(preRes.before).active /\ preRes.tag \in validTags)
    /\ (getStatus(preRes.before).active \/ preRes.tag \notin validTags) =>
         /\ preRes.exit = 1
         /\ ~preRes.attempted
         /\ preRes.after = preRes.before
         /\ preRes.report = "error"

C8_Witness ==
  /\ preRes.op = "enter"
  /\ preRes.tag = "beta"
  /\ getStatus(preRes.before).active
  /\ preRes.before.tag = "alpha"

\* C9: exit from an inactive status reports with an informational message,
\* does not run the tool, leaves pre.json as it was and ends with status 0;
\* exit from an active status runs the tool and, when it ends with status 0,
\* the status is inactive.
C9_ExitNoop ==
  preRes.op = "exit" =>
    /\ pre = preRes.after
    /\ ~getStatus(preRes.before).active =>
         /\ ~preRes.attempted
         /\ preRes.after = preRes.before
         /\ preRes.exit = 0
         /\ preRes.report = "info"
    /\ getStatus(preRes.before).active =>
         /\ preRes.attempted
         /\ preRes.exit = 0 => ~getStatus(preRes.after).active
         /\ preRes.exit # 0 => (preRes.exit = 1 /\ preRes.after = preRes.before)

C9_Witness ==
  /\ preRes.op = "exit"
  /\ preRes.before.file = "ok"
  /\ preRes.before.mode = "exit"
  /\ ~preRes.attempted

SnapDir == snap[2]
SnapPre == snap[3]

\* C10: with pre.json missing or not parseable, the status command reports
\* an inactive status with no mode and no tag and ends with status 0, the
\* release analysis shows no prerelease mode and only versions without a
\* prerelease suffix, and neither read changes anything.
C10_ReadTolerant ==
  /\ (preRes.op = "status" /\ preRes.before.file \in {"missing", "corrupt"}) =>
       /\ preRes.out = Inactive
       /\ preRes.exit = 0
       /\ preRes.after = preRes.before
       /\ pre = preRes.before
  /\ (analysis # NoAnalysis /\ SnapPre.file \in {"missing", "corrupt"}) =>
       /\ analysis.prereleaseMode = Null
       /\ \A k \in 1..Len(analysis.packagesToRelease) :
            /\ ~analysis.packagesToRelease[k].prerelease
            /\ analysis.packagesToRelease[k].newVersion.tag = Null
       /\ steps = << >> => world = snap

C10_Witness ==
  /\ pc = "version"
  /\ pre.file = "corrupt"
  /\ analysis.packagesToRelease # << >>

\* none < patch < minor < major
BumpRank(b) ==
  CASE b = "none" -> 0 [] b = "patch" -> 1 [] b = "minor" -> 2 [] b = "major" -> 3

\* The maximum of a set of levels, none for the empty set.
MaxLevel(S) ==
  IF S = {} THEN "none" ELSE CHOOSE b \in S : \A c \in S : BumpRank(b) >= BumpRank(c)

\* C12: getHighestBump of a list is the maximum of its levels under
\* none < patch < minor < major and none for the empty list; it is the same
\* for the list in another order, with elements repeated and with none
\* added, and combining partial results gives the result of the whole list
\* however they are grouped.
C12_JoinLaws ==
  (lib.fn = "getHighestBump" /\ lib.called) =>
    /\ lib.out.a = MaxLevel(Range(lib.a))
    /\ lib.out.ab = MaxLevel(Range(lib.a) \cup Range(lib.b))
    /\ lib.out.ba = lib.out.ab
    /\ lib.out.aa = lib.out.a
    /\ lib.out.an = lib.out.a
    /\ lib.out.left = lib.out.right
    /\ lib.out.left = lib.out.abc
    /\ lib.a = << >> => lib.out.a = "none"

C12_Witness ==
  /\ lib.fn = "getHighestBump"
  /\ lib.called
  /\ lib.a = << "patch", "minor" >>
  /\ lib.b = << "none", "patch" >>
  /\ lib.c = "patch"
  /\ lib.out.abc = "minor"

\* The bump the table gives a commit of a type with a breaking flag.
TableBump(type, breaking) ==
  IF breaking THEN "major"
  ELSE IF type = "feat" THEN "minor"
  ELSE IF type \in {"fix", "perf", "refactor"} THEN "patch"
  ELSE "none"

\* C13: the bump of a parsed commit is major when its subject carries '!',
\* whatever the type; otherwise minor for feat, patch for fix, perf and
\* refactor, none for chore, docs, test, ci, build and style.
C13_EffectiveBump ==
  (lib.fn = "getBumpFromCommitType" /\ lib.called /\ lib.message.colon) =>
    /\ lib.out.commit.parsed
    /\ lib.out.commit.breaking = lib.message.bang
    /\ lib.message.bang => lib.out.bump = "major"
    /\ (~lib.message.bang /\ lib.message.type \in USER_FACING_TYPES \cup INTERNAL_TYPES) =>
         lib.out.bump = TableBump(lib.message.type, FALSE)

C13_Witness ==
  /\ lib.fn = "getBumpFromCommitType"
  /\ lib.called
  /\ lib.message = Subject("feat", "api", TRUE, TRUE)
  /\ lib.out.bump = "major"

\* The commits of a range whose scope leads to package pk.
CommitsOf(commits, pk) ==
  {i \in 1..Len(commits) :
     /\ commits[i].scope \in DOMAIN ScopeToPackage
     /\ ScopeToPackage[commits[i].scope] = pk}

\* C14: groupCommitsByScope has a group for exactly the packages some
\* commit's scope leads to, and the group's suggested bump is the maximum of
\* the bumps of those commits.
C14_SuggestedBump ==
  (lib.fn = "groupCommitsByScope" /\ lib.called) =>
    /\ DOMAIN lib.out = {pk \in Managed : CommitsOf(lib.commits, pk) # {}}
    /\ \A pk \in DOMAIN lib.out :
         lib.out[pk].suggestedBump =
           MaxLevel({TableBump(lib.commits[i].type, lib.commits[i].breaking) :
                       i \in CommitsOf(lib.commits, pk)})

C14_Witness ==
  /\ lib.fn = "groupCommitsByScope"
  /\ lib.called
  /\ Len(lib.commits) = 2
  /\ lib.commits[1] = [parsed |-> TRUE, type |-> "feat", scope |-> "ui", breaking |-> FALSE]
  /\ lib.commits[2] = [parsed |-> TRUE, type |-> "fix", scope |-> "ui", breaking |-> FALSE]
  /\ lib.out["A"].suggestedBump = "minor"

\* C11: while the prerelease status stays active, no step of any command
\* (status, rejected enter, analysis, release run) changes the
\* initialVersions of pre.json.
C11_InitialVersionsFixed ==
  [][(getStatus(pre).active /\ getStatus(pre').active)
       => pre'.initialVersions = pre.initialVersions]_vars

C11_Witness ==
  /\ getStatus(pre).active
  /\ preRes.op = "enter"
  /\ preRes.exit = 1
  /\ pre.initialVersions["A"] # wtVer["A"]

\* C15: simulateVersion lists each package once, the packages listed are
\* those the pending changesets declare a level for, and each one's bump is
\* the highest level declared for it, whatever the order of the listing.
C15_HighestBumpOnce ==
  (lib.fn = "simulateVersion" /\ lib.called) =>
    LET pending == lib.dir \cap CsFiles
    IN /\ \A i, j \in 1..Len(lib.out) : lib.out[i].name = lib.out[j].name => i = j
       /\ {lib.out[k].name : k \in 1..Len(lib.out)}
            = {pk \in Managed : BumpsFor(pending, pk) # {}}
       /\ \A k \in 1..Len(lib.out) :
            lib.out[k].bump = MaxLevel(BumpsFor(pending, lib.out[k].name))

C15_Witness ==
  /\ lib.fn = "simulateVersion"
  /\ lib.called
  /\ lib.dir = {"ab-major.md", "a-patch.md"}
  /\ lib.order = Reverse(FileOrder)
  /\ \E k \in 1..Len(lib.out) : lib.out[k].name = "A" /\ lib.out[k].bump = "major"
  /\ \E k \in 1..Len(lib.out) : lib.out[k].name = "B" /\ lib.out[k].bump = "minor"

Numeric(v) == NaN \notin {v.maj, v.min, v.pat}

\* C16: bumpVersion without prerelease tag gives, for a version M.m.p with
\* or without suffix, (M+1).0.0 for major, M.(m+1).0 for minor and
\* M.m.(p+1) for patch, without suffix: 1.4.2 gives 1.4.3 for patch and
\* 2.0.0 for major.
C16_StableBump ==
  (lib.fn = "bumpVersion" /\ lib.called /\ lib.prereleaseTag = Null
     /\ Numeric(lib.version)) =>
    /\ lib.bump = "major" => lib.out = Ver(lib.version.maj + 1, 0, 0)
    /\ lib.bump = "minor" => lib.out = Ver(lib.version.maj, lib.version.min + 1, 0)
    /\ lib.bump = "patch" =>
         lib.out = Ver(lib.version.maj, lib.version.min, lib.version.pat + 1)
    /\ (lib.version = Ver(1, 4, 2) /\ lib.bump = "patch") => lib.out = Ver(1, 4, 3)
    /\ (lib.version = Ver(1, 4, 2) /\ lib.bump = "major") => lib.out = Ver(2, 0, 0)

C16_Witness ==
  /\ lib.fn = "bumpVersion"
  /\ lib.called
  /\ lib.prereleaseTag = Null
  /\ lib.version = PreVer(1, 4, 2, "beta", 3)
  /\ lib.bump = "minor"
  /\ lib.out = Ver(1, 5, 0)

\* C17: simulateVersion produces no entry, and so no new version, for a
\* package whose package.json version has a component that is no number or
\* has no version at all.
C17_ParseErrorFatal ==
  (lib.fn = "simulateVersion" /\ lib.called) =>
    \A k \in 1..Len(lib.out) :
      /\ lib.wt[lib.out[k].name] # NoVersionField
      /\ Numeric(lib.wt[lib.out[k].name])

\* Names equal to readme.md when case is ignored, and names beginning with
\* a dot.
ReadmeNames == {"README.md", "readme.md", "Readme.md"}
DotNames == {".gitkeep", ".hidden.md"}

\* C18: getPendingChangesets returns the .md entries of the directory that
\* are neither a readme under any spelling nor dot files, and only those.
C18_ListingExcludes ==
  (lib.fn = "getPendingChangesets" /\ lib.called) =>
    Range(lib.out) = (lib.dir \cap MdFiles) \ (ReadmeNames \cup DotNames)

\* Changeset files whose header block is empty or not there.
HeaderlessFiles == {"internal.md", "blank-header.md", "no-header.md"}

C20_CreateTagIdempotent ==
  (lib.fn = "createTag") =>
    \A i, j \in 1..Len(lib.calls) :
      (i < j /\ lib.calls[i].created /\ lib.calls[j].pkg = lib.calls[i].pkg) =>
        /\ ~lib.calls[j].created
        /\ ~lib.calls[j].threw
        /\ lib.calls[j].after = lib.calls[j].before
        /\ TagOf(lib.calls[j].pkg) \in lib.calls[j].after

C20_Witness ==
  /\ lib.fn = "createTag"
  /\ Len(lib.calls) = 2
  /\ lib.calls[1].created
  /\ lib.calls[2].pkg = lib.calls[1].pkg

\* C21: in the commit step a failure whose reason is "nothing to commit" is
\* taken as success and the run goes on with the tag step; any other failure
\* of the commit ends the run with status 1 before any tag, push or release.
C21_NothingToCommitContinues ==
  \A i \in StepsOf("commit") :
    /\ steps[i].res = "nothing" =>
         /\ exitCode # 1 \/ i < Len(steps)
         /\ i = Len(steps) => pc = "tag"
    /\ steps[i].res = "failed" =>
         /\ i = Len(steps)
         /\ pc = "idle"
         /\ exitCode = 1

\* The place of a step in the order of executeRelease.
StepRank(st) ==
  CASE st = "version" -> 1
    [] st = "lock" -> 2
    [] st = "commit" -> 3
    [] st = "tag" -> 4
    [] st = "push" -> 5
    [] st = "release" -> 6

\* C24: the steps of a release run that change something happen in the
\* order version, lockfile, commit, tag, push, hosted release: a tag is
\* created only after the commit step has completed, the push happens only
\* after the creation of every released package's tag was attempted, and a
\* hosted release is created only after the push completed or was switched
\* off; tags, remote and hosting service change by these steps only.
C24_StepOrder ==
  /\ \A i, j \in 1..Len(steps) :
       i < j => StepRank(steps[i].step) <= StepRank(steps[j].step)
  /\ \A j \in StepsOf("tag") :
       \E i \in StepsOf("commit") : i < j /\ ~commitRethrows(steps[i].res)
  /\ \A j \in StepsOf("push") :
       \A k \in 1..Len(packages) :
         \E i \in StepsOf("tag") : i < j /\ steps[i].pkg = packages[k].name
  /\ \A j \in StepsOf("release") :
       \/ \E i \in StepsOf("push") : i < j /\ steps[i].res = "ok"
       \/ flags.noPush = "yes" /\ StepsOf("push") = {}
  /\ tags # snap[7] => \E i \in StepsOf("tag") : steps[i].res = "created"
  /\ remote # snap[8] => Step("push", Null, "ok") \in Range(steps)
  /\ releases # snap[9] => \E i \in StepsOf("release") : steps[i].res = "ok"

C24_Witness ==
  /\ pc = "idle"
  /\ Len(packages) = 2
  /\ Len(steps) = 8
  /\ steps[6] = Step("push", Null, "ok")
  /\ steps[7].res = "ok"
  /\ steps[8].res = "ok"
  /\ Cardinality(releases) = 2

\* C26: the release analysis reports a prerelease exactly when the status
\* command reports the prerelease window as active, for the same state file;
\* a file whose mode is no longer "pre" but that still holds a tag counts
\* as stable for both.
C26_SameReading ==
  analysis # NoAnalysis =>
    (analysis.prereleaseMode # Null) = getStatus(snap[3]).active

\* C27: a release run that ended with status 0 after its version step had
\* consumed at least one pending changeset has executed the commit step.
C27_ConsumedThenCommitted ==
  (/\ pc = "idle"
   /\ exitCode = 0
   /\ Step("version", Null, "ok") \in Range(steps)
   /\ snap[2] \ csDir # {})
    => StepsOf("commit") # {}

\* C28: a hosted release is created for a package only when the package's
\* tag is on the remote; with --no-push no release is created for a tag
\* that exists locally only.
C28_ReleaseOnlyPushed ==
  \A k \in 1..Len(packages) :
    Step("release", packages[k].name, "ok") \in Range(steps)
      => TagOf(packages[k]) \in remote.tags

\* The hashes of the commits analyze has attributed to package pk.
HashesOf(grouped, pk) ==
  {grouped[pk].commits[i].hash : i \in 1..Len(grouped[pk].commits)}

\* C22: analyze attributes every commit of the range to at most one
\* package: a scoped commit only to the package whose directory name is the
\* scope, a commit whose scope names no package to none, and no commit to
\* two packages, the file-path fallback included.
C22_OnePackagePerCommit ==
  (lib.fn = "analyze" /\ lib.called) =>
    LET grouped == lib.out.analysis.grouped
    IN /\ \A pk \in DOMAIN grouped : \A qk \in DOMAIN grouped :
            pk # qk => HashesOf(grouped, pk) \cap HashesOf(grouped, qk) = {}
       /\ \A pk \in DOMAIN grouped : \A i \in 1..Len(grouped[pk].commits) :
            LET c == grouped[pk].commits[i]
            IN c.scope # Null =>
                 \E k \in 1..Len(lib.packages) :
                   /\ lib.packages[k].name = pk
                   /\ lib.packages[k].relativePath[2] = c.scope

\* C23: a package whose attributed commits all have bump none is in the
\* result of analyze only when every commit of the range is of an internal
\* type (the empty changeset is written); the header written from the result
\* lists no package with level none and no package twice.
C23_IrrelevantOmitted ==
  (lib.fn = "analyze" /\ lib.called) =>
    LET result == lib.out.analysis
        header == lib.out.changeset.header
    IN /\ \A i \in 1..Len(result.packages) :
            LET attributed == result.grouped[result.packages[i].name].commits
            IN (\A j \in 1..Len(attributed) :
                  getBumpFromCommitType(attributed[j]) = "none")
                 => /\ \A k \in 1..Len(lib.commits) :
                         lib.commits[k].type \in INTERNAL_TYPES
                    /\ lib.out.changeset.kind = "empty"
       /\ \A i \in 1..Len(header) : header[i].bump # "none"
       /\ \A i, j \in 1..Len(header) : i # j => header[i].pkg # header[j].pkg

C23_Witness ==
  /\ lib.fn = "analyze"
  /\ lib.called
  /\ "A" \in DOMAIN lib.out.analysis.grouped
  /\ \A j \in 1..Len(lib.out.analysis.grouped["A"].commits) :
       getBumpFromCommitType(lib.out.analysis.grouped["A"].commits[j]) = "none"
  /\ lib.out.changeset.kind = "changeset"
  /\ lib.out.changeset.header = << [pkg |-> "B", bump |-> "minor"] >>

\* C29: the file-path fallback gives a package the "changes detected" entry
\* only when a changed file lies under that package's own directory.
C29_FallbackOwnDirectory ==
  (lib.fn = "analyze" /\ lib.called) =>
    \A pk \in DOMAIN lib.out.analysis.grouped :
      lib.out.analysis.grouped[pk].reason = "changes detected" =>
        \E k \in 1..Len(lib.packages), f \in 1..Len(lib.changedFiles) :
          /\ lib.packages[k].name = pk
          /\ Len(lib.changedFiles[f]) > 2
          /\ SubSeq(lib.changedFiles[f], 1, 2) = lib.packages[k].relativePath

\* C30: every package whose commits, attributed by scope, aggregate to a
\* bump other than none is in the result of analyze with that bump; a package whose
\* only bump-relevant commit is a breaking commit of an internal type is in
\* it with major.
C30_RelevantIncluded ==
  (lib.fn = "analyze" /\ lib.called) =>
    LET grouped == lib.out.analysis.grouped
        result == lib.out.analysis.packages
    IN \A pk \in DOMAIN grouped :
         LET aggregate == getHighestBump([i \in 1..Len(grouped[pk].commits) |->
                                            getBumpFromCommitType(grouped[pk].commits[i])])
         IN (grouped[pk].reason # "changes detected" /\ aggregate # "none")
              => \E i \in 1..Len(result) :
                   result[i].name = pk /\ result[i].suggestedBump = aggregate

\* The subcommands of a skill with a subcommand table, as runCommand lists
\* them for an unknown one.
KnownSubcommands(skillName) == DOMAIN ENTRY_POINTS[skillName].table \ {"_default"}

\* C25: skills run without a skill name, with an unknown skill, with a skill
\* without scripts, or, for a skill with a subcommand table, with a first
\* argument that is neither absent, dash-prefixed nor a known subcommand ends
\* with status 1 and runs no script; a known subcommand selects its script
\* and is taken off the forwarded arguments; an absent or dash-prefixed first
\* argument selects the default script and forwards every argument.
C25_RunRouting ==
  (lib.fn = "runCommand" /\ lib.called) =>
    LET args == lib.args
        out == lib.out
        skill == {sk \in BundledSkills : args # << >> /\ sk.name = args[1]}
        absent == Len(args) < 2 \/ args[2] = ""
    IN /\ (skill = {} \/ \E sk \in skill : ~sk.hasScripts)
            => out.exit = 1 /\ ~out.ran
       /\ \A sk \in skill :
            (sk.hasScripts /\ sk.name \in DOMAIN ENTRY_POINTS
             /\ ~ENTRY_POINTS[sk.name].single)
              => /\ (~absent /\ ~startsWithDash(args[2])
                     /\ args[2] \notin KnownSubcommands(sk.name))
                      => out.exit = 1 /\ ~out.ran
                 /\ (~absent /\ args[2] \in KnownSubcommands(sk.name))
                      => /\ out.script = ENTRY_POINTS[sk.name].table[args[2]]
                         /\ out.forwarded = SubSeq(args, 3, Len(args))
                 /\ (absent \/ startsWithDash(args[2]))
                      => /\ out.script = ENTRY_POINTS[sk.name].table["_default"]
                         /\ out.forwarded = Tail(args)

====
